---- MODULE Spec2Model ----
(***************************************************************************)
(* FinanceToolkit retrieval pipeline.                                      *)
(*   src/financetoolkit/base/models/fundamentals_model.py : the eight      *)
(*       retrieval entry points (validate, fetch per ticker, normalise,    *)
(*       concatenate, drop rows, collapse)                                 *)
(*   src/financetoolkit/base/helpers.py : combine_dataframes and the       *)
(*       handle_errors decorator                                           *)
(*                                                                         *)
(* One call is one run of the machine: the entry point validates its       *)
(* arguments, then the loop issues one fetch per element of ticker_list    *)
(* (each fetch is a step, its outcome chosen by the provider), then the    *)
(* code after the loop builds the returned table.                          *)
(***************************************************************************)
EXTENDS Integers, Sequences, FiniteSets

VARIABLES
    pc,           \* "idle" | "loop" (inside `for ticker in ticker_list`) | "done"
    fn,           \* the function that was called, "" before the call
    tickers,      \* the identifier argument as passed (a Python value)
    api_key,      \* the api_key argument as passed (a Python value)
    quarter,      \* the quarter argument
    statement,    \* the statement argument (get_financial_statements only)
    ticker_list,  \* the local ticker_list
    i,            \* position in ticker_list of the next ticker of the loop
    fetches,      \* every network request issued by the call, in order, with its answer
    frames,       \* the per-ticker dict (or the profile/quote frame), insertion-ordered
    result,       \* what the call gave: nothing yet, a value, or a raised error
    inner,        \* handle_errors: what the wrapped function did
    printed       \* handle_errors: what the wrapper wrote to stdout

vars == <<pc, fn, tickers, api_key, quarter, statement, ticker_list, i,
          fetches, frames, result, inner, printed>>

(***************************************************************************)
(* Bounds of the model.                                                    *)
(***************************************************************************)
\* longest list of identifiers passed to a call
MaxTickers == 2

(***************************************************************************)
(* Python values of the arguments.                                         *)
(***************************************************************************)
PyStr(s) == [type |-> "str", v |-> s]
\* an int, kept by its decimal text (what an f-string writes for it)
PyInt(s) == [type |-> "int", v |-> s]
PyList(xs) == [type |-> "list", v |-> xs]
Missing == [type |-> "missing", v |-> ""]

\* what a caller may put in a list of identifiers: two tickers and a non-string
Elems == {PyStr("AAPL"), PyStr("MSFT"), PyInt("7")}
StrElems == {e \in Elems : e.type = "str"}

SeqsUpTo(S, n) == UNION {[1..k -> S] : k \in 0..n}

\* the identifier arguments tried: a string, a list (of strings or not), an int
TickerArgs == StrElems \cup {PyInt("7")} \cup {PyList(xs) : xs \in SeqsUpTo(Elems, MaxTickers)}

ApiKeyArgs == {PyStr("KEY"), PyStr(""), Missing}

EntryPoints == {"get_financial_statements", "get_profile", "get_quote", "get_enterprise",
                "get_rating", "get_earning_call_transcript",
                "get_revenue_by_geographic_segment", "get_revenue_by_business_segment"}

(***************************************************************************)
(* Provider responses.  A record carries its date (the ISO text            *)
(* "2022-09-30" is kept as <<2022, 9, 30>>, which orders as the text does) *)
(* and a value, an explicit null, or nothing at all for each field.        *)
(***************************************************************************)
NaN == "NaN"
Absent == "absent"
FieldOrder == <<"stockPrice", "addTotalDebt">>

Rec(d, price, debt) ==
    [date |-> d,
     cells |-> [f \in {g \in {"stockPrice", "addTotalDebt"} :
                         IF g = "stockPrice" THEN price # Absent ELSE debt # Absent}
                  |-> IF f = "stockPrice" THEN price ELSE debt]]

June22 == <<2022, 6, 30>>
Sept22 == <<2022, 9, 30>>
March23 == <<2023, 3, 31>>

RFull == Rec(June22, "10", "5")
RPart == Rec(Sept22, "20", NaN)
RNarrow == Rec(March23, "30", Absent)
RNull == Rec(Sept22, NaN, NaN)

\* the responses the provider gives in the model: none, one or two records,
\* in or out of date order, with and without nulls, with colliding dates
RawRecordSets ==
    { <<>>, <<RFull>>, <<RPart>>, <<RNarrow>>, <<RNull>>,
      <<RPart, RFull>>, <<RFull, RNarrow>>, <<RNull, RPart>> }

\* what a failed request raises inside the try block
FetchErrors == {"HTTPError", "JSONDecodeError"}

(***************************************************************************)
(* Data frames.  A frame is its row labels (index), its column labels and  *)
(* its cells by position, data[r][c]; labels may repeat on either axis.    *)
(* Period labels are tuples: <<y>> a calendar year, <<y, m>> a year-month, *)
(* <<y, m, d>> a full date.  Each axis also has the pandas class of its     *)
(* labels (for a two-level index, of its inner level): PeriodIndex for     *)
(* year-months, DatetimeIndex for dates, Index for texts and integers.     *)
(***************************************************************************)
Range(s) == {s[k] : k \in DOMAIN s}

Frame(idx, cols, cells) ==
    [index |-> idx, columns |-> cols, data |-> cells,
     index_type |-> "Index", columns_type |-> "Index"]

\* f with the classes of its axes set
WithTypes(f, it, ct) == [f EXCEPT !.index_type = it, !.columns_type = ct]

EmptyFrame == Frame(<<>>, <<>>, <<>>)

\* position of the first occurrence of x in s (x occurs in s)
IndexOf(s, x) == CHOOSE k \in DOMAIN s : s[k] = x /\ \A j \in 1..(k - 1) : s[j] # x

\* s without the repeats of its elements, first occurrences kept in order
RECURSIVE Unique(_)
Unique(s) ==
    IF s = <<>> THEN <<>>
    ELSE LET init == Unique(SubSeq(s, 1, Len(s) - 1))
             last == s[Len(s)]
         IN IF last \in Range(init) THEN init ELSE Append(init, last)

RECURSIVE Flatten(_)
Flatten(ss) == IF ss = <<>> THEN <<>> ELSE Head(ss) \o Flatten(Tail(ss))

\* pd.read_json(...).drop("symbol", axis=1): one row per record, one column per
\* field any record holds, NaN where a record lacks the field; the date column
\* is the row label until set_index replaces it
ReadJson(raw) ==
    LET cols == SelectSeq(FieldOrder, LAMBDA f : \E k \in DOMAIN raw : f \in DOMAIN raw[k].cells)
    IN Frame([k \in DOMAIN raw |-> raw[k].date],
             cols,
             [k \in DOMAIN raw |->
                [c \in DOMAIN cols |->
                    IF cols[c] \in DOMAIN raw[k].cells THEN raw[k].cells[cols[c]] ELSE NaN]])

\* ISO dates compare as their text does: year, then month, then day
DateRank(d) == (d[1] * 100 + d[2]) * 100 + d[3]

\* the rows of f taken in the order perm gives
TakeRows(f, perm) ==
    WithTypes(Frame([k \in DOMAIN perm |-> f.index[perm[k]]], f.columns,
                    [k \in DOMAIN perm |-> f.data[perm[k]]]),
              f.index_type, f.columns_type)

\* the positions of ranks in ascending order of rank, ties in their old order
SortedPositions(ranks) ==
    LET n == Len(ranks)
        place(p) == 1 + Cardinality({q \in 1..n :
                        \/ ranks[q] < ranks[p]
                        \/ ranks[q] = ranks[p] /\ q < p})
    IN [k \in 1..n |-> CHOOSE p \in 1..n : place(p) = k]

\* .sort_values(by="date", ascending=True)
SortValuesByDate(f) ==
    TakeRows(f, SortedPositions([k \in DOMAIN f.index |-> DateRank(f.index[k])]))

\* pd.to_datetime(date).dt.year
ToYear(d) == <<d[1]>>
\* pd.to_datetime(date).dt.to_period("M")
ToPeriodM(d) == <<d[1], d[2]>>

\* the class of the index pandas builds from a column of a dtype
IndexClass(dtype) ==
    CASE dtype = "period[M]" -> "PeriodIndex"
      [] dtype = "datetime64[ns]" -> "DatetimeIndex"
      [] OTHER -> "Index"

\* frame.set_index("date"), the date column holding labels by then
SetIndex(f, col) ==
    WithTypes(Frame(col.values, f.columns, f.data), IndexClass(col.dtype), f.columns_type)

\* the date column after `frame["date"] = pd.to_datetime(frame["date"]).dt.year`
YearColumn(f) ==
    [dtype |-> "int", values |-> [k \in DOMAIN f.index |-> ToYear(f.index[k])]]
\* the date column after `frame["date"] = pd.to_datetime(frame["date"]).dt.to_period("M")`
MonthColumn(f) ==
    [dtype |-> "period[M]", values |-> [k \in DOMAIN f.index |-> ToPeriodM(f.index[k])]]
\* the date column as read
DateColumn(f) == [dtype |-> "datetime64[ns]", values |-> f.index]

\* .T
Transpose(f) ==
    WithTypes(Frame(f.columns, f.index,
                    [c \in DOMAIN f.columns |-> [r \in DOMAIN f.index |-> f.data[r][c]]]),
              f.columns_type, f.index_type)

\* a Python dict literal given by its keys and a rule
EnterpriseNames ==
    [c \in {"stockPrice", "numberOfShares", "marketCapitalization",
            "minusCashAndCashEquivalents", "addTotalDebt", "enterpriseValue"} |->
        CASE c = "stockPrice" -> "Stock Price"
          [] c = "numberOfShares" -> "Number of Shares"
          [] c = "marketCapitalization" -> "Market Capitalization"
          [] c = "minusCashAndCashEquivalents" -> "Cash and Cash Equivalents"
          [] c = "addTotalDebt" -> "Total Debt"
          [] OTHER -> "Enterprise Value"]

RatingNames ==
    [c \in {"rating", "ratingScore", "ratingRecommendation",
            "ratingDetailsDCFScore", "ratingDetailsDCFRecommendation",
            "ratingDetailsROEScore", "ratingDetailsROERecommendation",
            "ratingDetailsROAScore", "ratingDetailsROARecommendation",
            "ratingDetailsDEScore", "ratingDetailsDERecommendation",
            "ratingDetailsPEScore", "ratingDetailsPERecommendation",
            "ratingDetailsPBScore", "ratingDetailsPBRecommendation"} |->
        CASE c = "rating" -> "Rating"
          [] c = "ratingScore" -> "Rating Score"
          [] c = "ratingRecommendation" -> "Rating Recommendation"
          [] c = "ratingDetailsDCFScore" -> "DCF Score"
          [] c = "ratingDetailsDCFRecommendation" -> "DCF Recommendation"
          [] c = "ratingDetailsROEScore" -> "ROE Score"
          [] c = "ratingDetailsROERecommendation" -> "ROE Recommendation"
          [] c = "ratingDetailsROAScore" -> "ROA Score"
          [] c = "ratingDetailsROARecommendation" -> "ROA Recommendation"
          [] c = "ratingDetailsDEScore" -> "DE Score"
          [] c = "ratingDetailsDERecommendation" -> "DE Recommendation"
          [] c = "ratingDetailsPEScore" -> "PE Score"
          [] c = "ratingDetailsPERecommendation" -> "PE Recommendation"
          [] c = "ratingDetailsPBScore" -> "PB Score"
          [] OTHER -> "PB Recommendation"]

\* .rename(columns=names): a label that is a key of names is replaced, the
\* others pass
RenameColumns(f, names) ==
    WithTypes(Frame(f.index,
                    [c \in DOMAIN f.columns |->
                        IF f.columns[c] \in DOMAIN names THEN names[f.columns[c]]
                        ELSE f.columns[c]],
                    f.data),
              f.index_type, f.columns_type)

(***************************************************************************)
(* Insertion-ordered dict: a sequence of <<key, value>> with unique keys.  *)
(***************************************************************************)
Keys(d) == [k \in DOMAIN d |-> d[k][1]]

\* d[key] = value: a new key goes last, a known key keeps its place
DictSet(d, key, value) ==
    IF key \in Range(Keys(d))
    THEN [k \in DOMAIN d |-> IF d[k][1] = key THEN <<key, value>> ELSE d[k]]
    ELSE Append(d, <<key, value>>)

RECURSIVE DictOf(_)
\* dict(pairs)
DictOf(pairs) ==
    IF pairs = <<>> THEN <<>>
    ELSE DictSet(DictOf(SubSeq(pairs, 1, Len(pairs) - 1)), pairs[Len(pairs)][1], pairs[Len(pairs)][2])

\* zip(xs, ys): as long as the shorter
Zip(xs, ys) ==
    LET n == IF Len(xs) < Len(ys) THEN Len(xs) ELSE Len(ys)
    IN [k \in 1..n |-> <<xs[k], ys[k]>>]

(***************************************************************************)
(* Values and raised errors.                                               *)
(***************************************************************************)
NoResult == [kind |-> "none"]
Returned(f) == [kind |-> "value", value |-> f]
Raised(type, cause) == [kind |-> "error", type |-> type, cause |-> cause]
IsError(r) == r.kind = "error"

HasRepeats(s) == \E a, b \in DOMAIN s : a # b /\ s[a] = s[b]

\* how often x occurs in s
Count(s, x) == Cardinality({k \in DOMAIN s : s[k] = x})

\* algorithms.union_with_duplicates: the distinct labels of both sides in order
\* of first appearance, each as often as the side that holds it most
UnionWithDuplicates(lvals, rvals) ==
    LET unique_vals == Unique(lvals \o rvals)
        repeats(x) == IF Count(lvals, x) < Count(rvals, x) THEN Count(rvals, x)
                      ELSE Count(lvals, x)
    IN Flatten([k \in DOMAIN unique_vals |->
                    [n \in 1..repeats(unique_vals[k]) |-> unique_vals[k]]])

\* Index.union(other, sort=False): self as it is, repeats included, then the
\* labels of other that self lacks; when other repeats a label, the union with
\* duplicates
IndexUnion(self, other) ==
    IF other = <<>> \/ self = other THEN self
    ELSE IF self = <<>> THEN other
    ELSE IF HasRepeats(other) THEN UnionWithDuplicates(self, other)
    ELSE self \o SelectSeq(other, LAMBDA x : x \notin Range(self))

\* union_indexes for indexes of a class of their own ("special"): the first
\* index united with the others in turn
RECURSIVE UnionMany(_)
UnionMany(indexes) ==
    IF Len(indexes) = 1 THEN indexes[1]
    ELSE IndexUnion(UnionMany(SubSeq(indexes, 1, Len(indexes) - 1)), indexes[Len(indexes)])

\* union_indexes(indexes, sort=False), classes being the pandas class of each
\* index.  Plain Index objects (texts, integers) that are all equal give the
\* first, otherwise their distinct labels in order of first appearance; any
\* other class (PeriodIndex) goes through Index.union, which keeps repeats.
UnionIndexes(indexes, classes) ==
    IF \E k \in DOMAIN classes : classes[k] # "Index" THEN UnionMany(indexes)
    ELSE IF \A k \in DOMAIN indexes : indexes[k] = indexes[1] THEN indexes[1]
    ELSE Unique(Flatten(indexes))

\* the class the labels of several indexes have together
CommonClass(classes) ==
    IF \A k \in DOMAIN classes : classes[k] = classes[1] THEN classes[1] ELSE "Index"

\* pd.concat(d, axis=0): the rows of each frame under its key, keys in dict
\* order; the columns are the union of the frames' columns.  A frame whose
\* columns equal the union is taken as it is; any other frame is re-indexed on
\* the union (NaN where it lacks a label), which a frame that repeats a label
\* cannot be: InvalidIndexError.  No frames: ValueError.
Concat(d) ==
    IF d = <<>> THEN Raised("ValueError", "No objects to concatenate")
    ELSE LET frs == [k \in DOMAIN d |-> d[k][2]]
             cols == UnionIndexes([k \in DOMAIN frs |-> frs[k].columns],
                                  [k \in DOMAIN frs |-> frs[k].columns_type])
             Widen(f, r) ==
                IF f.columns = cols THEN f.data[r]
                ELSE [c \in DOMAIN cols |->
                        IF cols[c] \in Range(f.columns)
                        THEN f.data[r][IndexOf(f.columns, cols[c])] ELSE NaN]
         IN IF \E k \in DOMAIN frs : frs[k].columns # cols /\ HasRepeats(frs[k].columns)
            THEN Raised("InvalidIndexError", "Reindexing only valid with uniquely valued Index objects")
            ELSE Returned(WithTypes(
                    Frame(Flatten([k \in DOMAIN d |->
                              [r \in DOMAIN frs[k].index |-> <<d[k][1], frs[k].index[r]>>]]),
                          cols,
                          Flatten([k \in DOMAIN d |->
                              [r \in DOMAIN frs[k].index |-> Widen(frs[k], r)]])),
                    CommonClass([k \in DOMAIN frs |-> frs[k].index_type]),
                    CommonClass([k \in DOMAIN frs |-> frs[k].columns_type])))

\* the members of a set of row positions, in ascending order
InOrder(S) ==
    [k \in 1..Cardinality(S) |-> CHOOSE r \in S : Cardinality({q \in S : q < r}) = k - 1]

\* .dropna(): how="any", a row goes when any of its cells is NaN
DropNa(f) ==
    TakeRows(f, InOrder({r \in DOMAIN f.index : \A c \in DOMAIN f.columns : f.data[r][c] # NaN}))

\* frame.loc[key] on a two-level index: the rows under key without the outer
\* level; KeyError when no row is under key
Loc(f, key) ==
    LET rows == InOrder({r \in DOMAIN f.index : f.index[r][1] = key})
    IN IF rows = <<>> THEN Raised("KeyError", key.v)
       ELSE Returned(WithTypes(
                Frame([k \in DOMAIN rows |-> f.index[rows[k]][2]], f.columns,
                      [k \in DOMAIN rows |-> f.data[rows[k]]]),
                f.index_type, f.columns_type))

\* the outer level of a two-level index, one entry per group of adjacent rows
RECURSIVE Groups(_)
Groups(idx) ==
    IF idx = <<>> THEN <<>>
    ELSE LET init == Groups(SubSeq(idx, 1, Len(idx) - 1))
             key == idx[Len(idx)][1]
         IN IF init # <<>> /\ init[Len(init)] = key THEN init ELSE Append(init, key)

(***************************************************************************)
(* The retrieval entry points: argument checks.                            *)
(***************************************************************************)
\* f"{ticker}" : the text an f-string writes for a str or an int
Format(x) == x.v

\* the parameter after binding: get_financial_statements defaults api_key to ""
BoundKey(k) == IF k = Missing THEN PyStr("") ELSE k

\* `if isinstance(tickers, str) ... elif isinstance(tickers, list) ... else raise`
TypeIsValid(t) == t.type \in {"str", "list"}

TickerListOf(t) == IF t.type = "str" THEN <<t>> ELSE IF t.type = "list" THEN t.v ELSE <<>>

Location(st) ==
    CASE st = "balance" -> "balance-sheet-statement"
      [] st = "income" -> "income-statement"
      [] st = "cashflow" -> "cash-flow-statement"
      [] OTHER -> ""

\* `if not api_key: raise ValueError(...)` of get_financial_statements
KeyIsRejected(k) == BoundKey(k).v = ""

\* the error that ends get_financial_statements before its loop, "" when none
StatementsCheck(t, st, k) ==
    IF ~TypeIsValid(t) THEN "Type for the tickers variable is invalid."
    ELSE IF Location(st) = "" THEN "Please choose either 'balance', 'income', or cashflow'"
    ELSE IF KeyIsRejected(k) THEN "Please enter an API key from FinancialModelingPrep."
    ELSE ""

\* the error that ends the other entry points before their loop, "" when none
TickersCheck(t) ==
    IF ~TypeIsValid(t) THEN "Type for the tickers variable is invalid." ELSE ""

\* the call is over before the loop: an error is raised, nothing was fetched
\* (ticker_list is bound by then, unless the call itself was a TypeError)
Reject(f, t, st, k, q, err) ==
    /\ pc' = "done"
    /\ fn' = f /\ tickers' = t /\ statement' = st /\ api_key' = k /\ quarter' = q
    /\ ticker_list' = (IF err.type = "TypeError" THEN <<>> ELSE TickerListOf(t))
    /\ i' = 1 /\ frames' = <<>>
    /\ result' = err
    /\ UNCHANGED <<fetches, inner, printed>>

\* the checks passed: the loop over ticker_list starts with an empty dict
Enter(f, t, st, k, q) ==
    /\ pc' = "loop"
    /\ fn' = f /\ tickers' = t /\ statement' = st /\ api_key' = k /\ quarter' = q
    /\ ticker_list' = TickerListOf(t) /\ i' = 1
    /\ frames' = IF f \in {"get_profile", "get_quote"} THEN EmptyFrame ELSE <<>>
    /\ UNCHANGED <<fetches, result, inner, printed>>

get_financial_statements(t, st, k, q) ==
    /\ pc = "idle"
    /\ IF StatementsCheck(t, st, k) # ""
       THEN Reject("get_financial_statements", t, st, k, q,
                   Raised("ValueError", StatementsCheck(t, st, k)))
       ELSE Enter("get_financial_statements", t, st, k, q)

\* the start of an entry point whose api_key has no default and is never
\* looked at: a call without it is a TypeError, then the type check of tickers
CheckThenLoop(f, t, k, q) ==
    IF k = Missing
    THEN Reject(f, t, "", k, q, Raised("TypeError", "missing 1 required positional argument: 'api_key'"))
    ELSE IF TickersCheck(t) # ""
    THEN Reject(f, t, "", k, q, Raised("ValueError", TickersCheck(t)))
    ELSE Enter(f, t, "", k, q)

get_profile(t, k) ==
    /\ pc = "idle"
    /\ CheckThenLoop("get_profile", t, k, FALSE)

get_quote(t, k) ==
    /\ pc = "idle"
    /\ CheckThenLoop("get_quote", t, k, FALSE)

get_enterprise(t, k, q) ==
    /\ pc = "idle"
    /\ CheckThenLoop("get_enterprise", t, k, q)

get_rating(t, k) ==
    /\ pc = "idle"
    /\ CheckThenLoop("get_rating", t, k, FALSE)

get_earning_call_transcript(t, k) ==
    /\ pc = "idle"
    /\ CheckThenLoop("get_earning_call_transcript", t, k, FALSE)

get_revenue_by_geographic_segment(t, k, q) ==
    /\ pc = "idle"
    /\ CheckThenLoop("get_revenue_by_geographic_segment", t, k, q)

get_revenue_by_business_segment(t, k, q) ==
    /\ pc = "idle"
    /\ CheckThenLoop("get_revenue_by_business_segment", t, k, q)

(***************************************************************************)
(* The loop body of each entry point: the request, then the per-ticker     *)
(* frame.                                                                  *)
(***************************************************************************)
Resource(f, st) ==
    CASE f = "get_financial_statements" -> Location(st)
      [] f = "get_profile" -> "profile"
      [] f = "get_quote" -> "quote"
      [] f = "get_enterprise" -> "enterprise-values"
      [] f = "get_rating" -> "historical-rating"
      [] f = "get_earning_call_transcript" -> "batch_earning_call_transcript"
      [] f = "get_revenue_by_geographic_segment" -> "revenue-geographic-segmentation"
      [] OTHER -> "revenue-product-segmentation"

\* the URL of the request for one ticker
Url(f, st, k, q, ticker) ==
    [resource |-> Resource(f, st), ticker |-> Format(ticker), apikey |-> BoundKey(k).v,
     period |-> CASE f \in {"get_financial_statements", "get_enterprise"} ->
                        (IF q THEN "quarter" ELSE "annual")
                  [] f \in {"get_revenue_by_geographic_segment", "get_revenue_by_business_segment"} ->
                        (IF q THEN "quarter" ELSE "")
                  [] OTHER -> ""]

\* .drop("symbol", axis=1) on the frame of an empty response, which has no columns
NoSymbolColumn == Raised("KeyError", "['symbol'] not found in axis")

\* get_financial_statements: the date becomes a year-month in quarterly mode
\* and a year otherwise, then fields become rows and periods columns
StatementFrame(raw, q) ==
    LET frame == ReadJson(raw)
    IN Transpose(SetIndex(frame, IF q THEN MonthColumn(frame) ELSE YearColumn(frame)))

\* get_enterprise: sorted by date, the date becomes its year, columns renamed
EnterpriseFrame(raw, q) ==
    LET sorted == SortValuesByDate(ReadJson(raw))
    IN RenameColumns(SetIndex(sorted, YearColumn(sorted)), EnterpriseNames)

\* get_rating: sorted by date, indexed by the date, columns renamed
RatingFrame(raw) ==
    LET sorted == SortValuesByDate(ReadJson(raw))
    IN RenameColumns(SetIndex(sorted, DateColumn(sorted)), RatingNames)

\* get_earning_call_transcript: sorted by date, indexed by the date
TranscriptFrame(raw) ==
    LET sorted == SortValuesByDate(ReadJson(raw))
    IN SetIndex(sorted, DateColumn(sorted))

\* pd.read_json(...).T of get_profile and get_quote: nothing is dropped, every
\* field of the response is a row and every record a column
ResponseColumns(ticker, raw) ==
    LET f == ReadJson(raw)
    IN Frame(<<"symbol", "date">> \o f.columns,
             [k \in DOMAIN raw |-> k - 1],
             <<[k \in DOMAIN raw |-> Format(ticker)], f.index>>
                \o [c \in DOMAIN f.columns |-> [k \in DOMAIN raw |-> f.data[k][c]]])

\* frame[key] = value for a one-column frame value: the rows of value are
\* aligned on frame's index (a frame without rows takes value's index), a known
\* key keeps its column position and a new one goes last
SetColumn(df, key, value) ==
    LET idx == IF df.index = <<>> THEN value.index ELSE df.index
        col == [r \in DOMAIN idx |->
                  IF idx[r] \in Range(value.index)
                  THEN value.data[IndexOf(value.index, idx[r])][1] ELSE NaN]
        old(r, c) == IF df.index = <<>> THEN NaN ELSE df.data[r][c]
    IN IF key \in Range(df.columns)
       THEN Frame(idx, df.columns,
                  [r \in DOMAIN idx |-> [c \in DOMAIN df.columns |->
                      IF df.columns[c] = key THEN col[r] ELSE old(r, c)]])
       ELSE Frame(idx, Append(df.columns, key),
                  [r \in DOMAIN idx |-> [c \in 1..(Len(df.columns) + 1) |->
                      IF c = Len(df.columns) + 1 THEN col[r] ELSE old(r, c)]])

\* what the loop body does with a response: the dict (or frame) it leaves, or
\* the error it raises
AfterFetch(f, q, d, ticker, raw) ==
    CASE f = "get_financial_statements" ->
            IF raw = <<>> THEN NoSymbolColumn
            ELSE Returned(DictSet(d, ticker, StatementFrame(raw, q)))
      [] f \in {"get_profile", "get_quote"} ->
            \* inside the try block: a value that is not one column cannot be
            \* set as a column, and the ValueError is wrapped like a failed request
            IF Len(raw) # 1 THEN Raised("ValueError", "ValueError")
            ELSE Returned(SetColumn(d, ticker, ResponseColumns(ticker, raw)))
      [] f = "get_enterprise" ->
            IF raw = <<>> THEN NoSymbolColumn
            ELSE Returned(DictSet(d, ticker, EnterpriseFrame(raw, q)))
      [] f = "get_rating" ->
            IF raw = <<>> THEN NoSymbolColumn
            ELSE Returned(DictSet(d, ticker, RatingFrame(raw)))
      [] f = "get_earning_call_transcript" ->
            IF raw = <<>> THEN NoSymbolColumn
            ELSE Returned(DictSet(d, ticker, TranscriptFrame(raw)))
      [] OTHER ->
            \* get_revenue_by_*: pd.concat(revenue_, axis=0) on the parsed JSON,
            \* a list of dicts, which pd.concat refuses
            IF raw = <<>> THEN Raised("ValueError", "No objects to concatenate")
            ELSE Raised("TypeError", "cannot concatenate object of type dict")

InLoop == pc = "loop" /\ i <= Len(ticker_list)

\* a request and what came back: the parsed records, or the error raised
Answered(url, raw) == [url |-> url, ok |-> TRUE, raw |-> raw, error |-> ""]
Failed(url, e) == [url |-> url, ok |-> FALSE, raw |-> <<>>, error |-> e]

\* FetchFail with the failure swallowed: the loop goes on to the next ticker
FetchFailContinues(e) ==
    /\ InLoop
    /\ fetches' = Append(fetches, Failed(Url(fn, statement, api_key, quarter, ticker_list[i]), e))
    /\ i' = i + 1
    /\ UNCHANGED <<pc, fn, tickers, api_key, quarter, statement, ticker_list, frames, result, inner, printed>>

\* the request for ticker_list[i] fails: `except Exception as error: raise ValueError(error) from error`
FetchFail(e) ==
    /\ InLoop
    /\ fetches' = Append(fetches, Failed(Url(fn, statement, api_key, quarter, ticker_list[i]), e))
    /\ result' = Raised("ValueError", e)
    /\ pc' = "done"
    /\ UNCHANGED <<fn, tickers, api_key, quarter, statement, ticker_list, i, frames, inner, printed>>

\* the request for ticker_list[i] answers raw; the rest of the loop body runs
FetchOk(raw) ==
    /\ InLoop
    /\ fetches' = Append(fetches, Answered(Url(fn, statement, api_key, quarter, ticker_list[i]), raw))
    /\ LET out == AfterFetch(fn, quarter, frames, ticker_list[i], raw)
       IN IF IsError(out)
          THEN /\ result' = out
               /\ pc' = "done"
               /\ UNCHANGED <<i, frames>>
          ELSE /\ frames' = out.value
               /\ i' = i + 1
               /\ UNCHANGED <<pc, result>>
    /\ UNCHANGED <<fn, tickers, api_key, quarter, statement, ticker_list, inner, printed>>

(***************************************************************************)
(* After the loop.                                                         *)
(***************************************************************************)
\* the lookup the caller passes as statement_format
StatementFormat(label) == IF label = "stockPrice" THEN "Stock Price" ELSE label

\* convert_financial_statements(total, statement_format, True): the row labels
\* under each ticker go through the lookup
convert_financial_statements(f) ==
    WithTypes(Frame([r \in DOMAIN f.index |-> <<f.index[r][1], StatementFormat(f.index[r][2])>>],
                    f.columns, f.data),
              f.index_type, f.columns_type)

\* `if len(ticker_list) == 1: frame = frame.loc[ticker_list[0]]`
Collapse(f, tl) == IF Len(tl) = 1 THEN Loc(f, tl[1]) ELSE Returned(f)

\* pd.concat(d, axis=0).dropna() and the collapse that follows
ConcatDropCollapse(d, tl) ==
    LET c == Concat(d)
    IN IF IsError(c) THEN c ELSE Collapse(DropNa(c.value), tl)

\* what the entry point returns (or raises) once the loop is over
AfterLoop(f, d, tl) ==
    CASE f = "get_financial_statements" ->
            LET c == Concat(d)
            IN IF IsError(c) THEN c ELSE Returned(convert_financial_statements(c.value))
      [] f \in {"get_profile", "get_quote"} -> Returned(d)
      [] OTHER -> ConcatDropCollapse(d, tl)

Finish ==
    /\ pc = "loop" /\ i > Len(ticker_list)
    /\ result' = AfterLoop(fn, frames, ticker_list)
    /\ pc' = "done"
    /\ UNCHANGED <<fn, tickers, api_key, quarter, statement, ticker_list, i, fetches, frames, inner, printed>>

(***************************************************************************)
(* helpers.combine_dataframes                                              *)
(***************************************************************************)
\* the order Python gives these texts (digits sort before capital letters)
StringOrder == <<"7", "AAPL", "MSFT">>

KeyRank(key) == IndexOf(StringOrder, key.v)

\* .sort_index(level=0, sort_remaining=False): rows ordered by their outer
\* label alone, rows of one outer label in their old order
SortIndexLevel0(f) ==
    TakeRows(f, SortedPositions([r \in DOMAIN f.index |-> KeyRank(f.index[r][1])]))

\* `tickers if isinstance(tickers, list) else [tickers]`
AsList(t) == IF t.type = "list" THEN t.v ELSE <<t>>

CombineDataframes(t, args) ==
    LET combined_df == Concat(DictOf(Zip(AsList(t), args)))
    IN IF IsError(combined_df) THEN combined_df
       ELSE Returned(SortIndexLevel0(combined_df.value))

\* the per-company statements handed to combine_dataframes
ArgFrames ==
    { StatementFrame(<<RFull>>, FALSE), StatementFrame(<<RNarrow>>, FALSE),
      StatementFrame(<<RPart, RFull>>, TRUE) }

\* the tickers handed to combine_dataframes: a string or a list of strings
CombineTickerArgs == StrElems \cup {PyList(xs) : xs \in SeqsUpTo(StrElems, MaxTickers)}

combine_dataframes(t, args) ==
    /\ pc = "idle"
    /\ pc' = "done"
    /\ fn' = "combine_dataframes"
    /\ tickers' = t
    /\ ticker_list' = AsList(t)
    /\ frames' = DictOf(Zip(AsList(t), args))
    /\ result' = CombineDataframes(t, args)
    /\ UNCHANGED <<api_key, quarter, statement, i, fetches, inner, printed>>

(***************************************************************************)
(* helpers.handle_errors                                                   *)
(***************************************************************************)
\* the base class of a Python exception class
BaseOf(e) ==
    CASE e \in {"KeyError", "IndexError"} -> "LookupError"
      [] e = "UnicodeDecodeError" -> "UnicodeError"
      [] e = "UnicodeError" -> "ValueError"
      [] e = "ZeroDivisionError" -> "ArithmeticError"
      [] OTHER -> "Exception"

\* isinstance(error, cls): `except cls` catches the class and its subclasses
RECURSIVE IsInstance(_, _)
IsInstance(e, cls) == e = cls \/ (e # "Exception" /\ IsInstance(BaseOf(e), cls))

PyExceptions == {"KeyError", "IndexError", "LookupError", "ValueError", "UnicodeDecodeError",
                 "TypeError", "ZeroDivisionError"}

\* pd.Series()
EmptySeries == [index |-> <<>>, values |-> <<>>]

\* WrapperResult without the `except ValueError` clause
WrapperResultKeyErrorOnly(name, out) ==
    IF ~IsError(out) THEN out
    ELSE IF IsInstance(out.type, "KeyError") THEN Returned(EmptySeries)
    ELSE out

\* what the wrapper returns or lets through, given what func did
WrapperResult(name, out) ==
    IF ~IsError(out) THEN out
    ELSE IF IsInstance(out.type, "KeyError") THEN Returned(EmptySeries)
    ELSE IF IsInstance(out.type, "ValueError") THEN Returned(EmptySeries)
    ELSE out

\* what the wrapper prints, given what func did
WrapperPrints(name, out) ==
    IF ~IsError(out) THEN <<>>
    ELSE IF IsInstance(out.type, "KeyError")
    THEN << [text |-> "There is an index name missing in the provided financial statements.",
             function |-> name, error |-> out.cause] >>
    ELSE IF IsInstance(out.type, "ValueError")
    THEN << [text |-> "An error occurred while trying to run the function",
             function |-> name, error |-> out.cause] >>
    ELSE <<>>

\* the functions decorated in the model, by func.__name__
WrappedNames == {"get_current_ratio", "get_gross_margin"}

\* what a decorated function may do: return a series, or raise
WrappedOutcomes ==
    {Returned(EmptySeries), Returned([index |-> <<"AAPL">>, values |-> <<"10">>])}
        \cup {Raised(e, "Revenue") : e \in PyExceptions}

\* a call of handle_errors(func)'s wrapper, func doing out
wrapper(name, out) ==
    /\ pc = "idle"
    /\ pc' = "done"
    /\ fn' = name
    /\ inner' = out
    /\ result' = WrapperResult(name, out)
    /\ printed' = WrapperPrints(name, out)
    /\ UNCHANGED <<tickers, api_key, quarter, statement, ticker_list, i, fetches, frames>>

(***************************************************************************)
(* The machine.                                                            *)
(***************************************************************************)
Init ==
    /\ pc = "idle"
    /\ fn = ""
    /\ tickers = Missing
    /\ api_key = Missing
    /\ quarter = FALSE
    /\ statement = ""
    /\ ticker_list = <<>>
    /\ i = 1
    /\ fetches = <<>>
    /\ frames = <<>>
    /\ result = NoResult
    /\ inner = NoResult
    /\ printed = <<>>

Statements == {"balance", "income", "cashflow", ""}

Next ==
    \/ \E t \in TickerArgs, st \in Statements, k \in ApiKeyArgs, q \in BOOLEAN :
            get_financial_statements(t, st, k, q)
    \/ \E t \in TickerArgs, k \in ApiKeyArgs : get_profile(t, k)
    \/ \E t \in TickerArgs, k \in ApiKeyArgs : get_quote(t, k)
    \/ \E t \in TickerArgs, k \in ApiKeyArgs, q \in BOOLEAN : get_enterprise(t, k, q)
    \/ \E t \in TickerArgs, k \in ApiKeyArgs : get_rating(t, k)
    \/ \E t \in TickerArgs, k \in ApiKeyArgs : get_earning_call_transcript(t, k)
    \/ \E t \in TickerArgs, k \in ApiKeyArgs, q \in BOOLEAN : get_revenue_by_geographic_segment(t, k, q)
    \/ \E t \in TickerArgs, k \in ApiKeyArgs, q \in BOOLEAN : get_revenue_by_business_segment(t, k, q)
    \/ \E e \in FetchErrors : FetchFail(e)
    \/ \E raw \in RawRecordSets : FetchOk(raw)
    \/ Finish
    \/ \E t \in CombineTickerArgs, args \in SeqsUpTo(ArgFrames, MaxTickers) : combine_dataframes(t, args)
    \/ \E name \in WrappedNames, out \in WrappedOutcomes : wrapper(name, out)

Spec == Init /\ [][Next]_vars

(***************************************************************************)
(* Properties.                                                             *)
(***************************************************************************)
IsEntryCall == fn \in EntryPoints

\* the call got past the argument checks of its entry point
PassedChecks ==
    /\ IsEntryCall
    /\ IF fn = "get_financial_statements"
       THEN StatementsCheck(tickers, statement, api_key) = ""
       ELSE api_key # Missing /\ TickersCheck(tickers) = ""

\* the loop ran over the whole of ticker_list
LoopCompleted == PassedChecks /\ pc \in {"loop", "done"} /\ i > Len(ticker_list)

\* the entry points that keep one frame per ticker in a dict and concatenate
ConcatEntryPoints == {"get_financial_statements", "get_enterprise", "get_rating",
                      "get_earning_call_transcript"}

\* the entry points that call .dropna() and collapse a one-ticker result
CollapsingEntryPoints == {"get_enterprise", "get_rating", "get_earning_call_transcript"}

IsStrOrListOfStr(t) ==
    \/ t.type = "str"
    \/ t.type = "list" /\ \A k \in DOMAIN t.v : t.v[k].type = "str"

\* a call with string identifiers and a non-empty api_key
WellFormedCall == IsEntryCall /\ IsStrOrListOfStr(tickers) /\ BoundKey(api_key).v # ""

\* every row of the frame holds at least one value
NoEmptyRow(f) == \A r \in DOMAIN f.index : \E c \in DOMAIN f.columns : f.data[r][c] # NaN

\* C1: on every entry point, an identifier argument that is neither a string
\* nor a list of strings ends the call in an error with no request issued.
C1_InvalidIdentifierNeverFetches ==
    (IsEntryCall /\ ~IsStrOrListOfStr(tickers)) =>
        /\ fetches = <<>>
        /\ pc = "done" => IsError(result)

\* C2: on every entry point, a missing or empty api_key ends the call in an
\* error at once, with no request issued for any identifier.
C2_NoApiKeyNeverFetches ==
    (IsEntryCall /\ BoundKey(api_key).v = "") =>
        /\ fetches = <<>>
        /\ pc = "done" => IsError(result)

\* C3: requests go out one per identifier in the order supplied; when the
\* request for the k-th identifier fails, it is the last request of the call,
\* and the call is over with a ValueError wrapping the cause, not with a table.
C3_FailedFetchAbortsBatch ==
    IsEntryCall =>
        /\ Len(fetches) <= Len(ticker_list)
        /\ \A k \in DOMAIN fetches :
              /\ fetches[k].url.ticker = Format(ticker_list[k])
              /\ ~fetches[k].ok =>
                    /\ k = Len(fetches)
                    /\ pc = "done"
                    /\ result = Raised("ValueError", fetches[k].error)

\* C3's case: the second request of a call failed after the first was answered
C3_Witness ==
    /\ WellFormedCall
    /\ Len(fetches) = 2 /\ Len(ticker_list) = 2
    /\ fetches[1].ok /\ ~fetches[2].ok
    /\ IsError(result)

\* C10: the wrapper of handle_errors returns func's result unchanged; when func
\* raises KeyError or ValueError (or a subclass) it prints one diagnostic that
\* names func and returns an empty series; any other error reaches the caller.
C10_WrapperContract ==
    (fn \in WrappedNames /\ pc = "done") =>
        /\ inner.kind = "value" => (result = inner /\ printed = <<>>)
        /\ (IsError(inner) /\ inner.type \in {"KeyError", "ValueError", "UnicodeDecodeError"}) =>
              /\ result = Returned(EmptySeries)
              /\ Len(printed) = 1
              /\ printed[1].function = fn
        /\ (IsError(inner) /\ inner.type \in {"IndexError", "LookupError", "TypeError", "ZeroDivisionError"}) =>
              (result = inner /\ printed = <<>>)
        /\ IsError(result) => result.type \notin {"KeyError", "ValueError", "UnicodeDecodeError"}

\* C10's case: the wrapped function raised ValueError and the wrapper returned
C10_Witness ==
    /\ fn \in WrappedNames
    /\ IsError(inner) /\ inner.type = "ValueError"
    /\ result = Returned(EmptySeries)
    /\ Len(printed) = 1

\* combine_dataframes was given one table per ticker of a non-empty list
\* without repeats, and concatenated them
CombinedOnePerTicker ==
    /\ fn = "combine_dataframes" /\ pc = "done"
    /\ ticker_list # <<>> /\ Len(frames) = Len(ticker_list)
    /\ ~IsError(result)

\* an entry point concatenated the tables of a non-empty list without repeats
ConcatenatedDistinct ==
    /\ fn \in ConcatEntryPoints /\ LoopCompleted
    /\ ticker_list # <<>> /\ ~HasRepeats(ticker_list)
    /\ \A k \in DOMAIN frames : frames[k][2].index # <<>>
    /\ ~IsError(Concat(frames))

\* C4: the outer level of the combined table lists the identifiers in exactly
\* the order supplied, for combine_dataframes and for the concatenation of the
\* entry points alike; it is not re-sorted.
C4_OuterOrderAsSupplied ==
    /\ CombinedOnePerTicker => Groups(result.value.index) = ticker_list
    /\ ConcatenatedDistinct => Groups(Concat(frames).value.index) = ticker_list

\* C5: for a one-identifier request the returned table is the identifier's
\* canonical table T, empty cells included: collapse undoes the one-key
\* combine; for two or more identifiers the combined table is returned as it is.
C5_CollapseGivesBackTable ==
    (WellFormedCall /\ fn \in CollapsingEntryPoints /\ pc = "done" /\ LoopCompleted) =>
        IF Len(ticker_list) = 1
        THEN NoEmptyRow(frames[1][2]) => result = Returned(frames[1][2])
        ELSE ~IsError(Concat(frames)) => result = Returned(DropNa(Concat(frames).value))

\* the frames of a call of two or more identifiers were concatenated, every
\* frame has rows and .dropna(), where it is called, dropped none of them
ConcatenatedWhole ==
    /\ WellFormedCall /\ fn \in ConcatEntryPoints /\ pc = "done" /\ LoopCompleted
    /\ Len(ticker_list) > 1
    /\ \A k \in DOMAIN frames : frames[k][2].index # <<>>
    /\ ~IsError(Concat(frames))
    /\ fn \in CollapsingEntryPoints => DropNa(Concat(frames).value) = Concat(frames).value
    /\ ~IsError(result)

\* C6: every occurrence of an identifier of the list is fetched, a repeated
\* identifier included, and the returned table has one group per occurrence,
\* in the order given: as many outer-level groups as the list is long.
C6_OneGroupPerOccurrence ==
    ConcatenatedWhole =>
        /\ Len(fetches) = Len(ticker_list)
        /\ \A k \in DOMAIN fetches : fetches[k].url.ticker = Format(ticker_list[k])
        /\ Groups(result.value.index) = ticker_list

\* the Period axis of a per-ticker frame: the columns of a statement, the rows
\* of the other resources
PeriodAxis(f, frame) == IF f = "get_financial_statements" THEN frame.columns ELSE frame.index

FrameOf(d, key) == d[IndexOf(Keys(d), key)][2]

\* the Period a date has in a mode: the year, or the year and month
ExpectedPeriod(q, d) == IF q THEN <<d[1], d[2]>> ELSE <<d[1]>>

\* C7: in the entry points that take a period mode and index by Period, the
\* Periods of a ticker's table are the dates of its records converted per the
\* mode: the year in annual mode, the year-month in quarterly mode.
C7_PeriodPerMode ==
    (WellFormedCall /\ fn \in {"get_financial_statements", "get_enterprise"}
        /\ pc \in {"loop", "done"}) =>
        \A k \in 1..(i - 1) :
            (\A j \in (k + 1)..(i - 1) : ticker_list[j] # ticker_list[k]) =>
                Range(PeriodAxis(fn, FrameOf(frames, ticker_list[k])))
                    = {ExpectedPeriod(quarter, fetches[k].raw[j].date) : j \in DOMAIN fetches[k].raw}

\* C8: after concatenation a row is dropped exactly when it is empty in every
\* column; a row holding at least one value is kept.
C8_DropsOnlyEmptyRows ==
    (WellFormedCall /\ fn \in CollapsingEntryPoints /\ pc = "done" /\ LoopCompleted
        /\ Len(ticker_list) > 1
        /\ ~HasRepeats(ticker_list) /\ ~IsError(Concat(frames))) =>
        LET c == Concat(frames).value
        IN result = Returned(TakeRows(c, InOrder({r \in DOMAIN c.index :
                        \E col \in DOMAIN c.columns : c.data[r][col] # NaN})))

\* C9: the table kept for a ticker has no repeated Period label, whatever the
\* records were.
C9_PeriodsUnique ==
    (WellFormedCall /\ fn \in ConcatEntryPoints /\ pc \in {"loop", "done"}) =>
        \A k \in DOMAIN frames : ~HasRepeats(PeriodAxis(fn, frames[k][2]))

====
